---- MODULE Spec2Model ----
(***************************************************************************)
(* Model of the fixed-capacity byte ring buffer of rust_ring/src/main.rs.  *)
(* The buffer's fields are the variables buffer, capacity, head, tail and  *)
(* size; every public mutating method is one action.  The variables last,  *)
(* pre, phase, pushed and popped are history variables: they record the    *)
(* last call, the buffer as it was before that call, and the current run   *)
(* of pushes followed by pops.  wraps counts how often the head has        *)
(* wrapped in the current series of push and pop calls, in_stream and      *)
(* out_stream are the bytes accepted and the bytes returned, and main_pc   *)
(* and trace follow the calls of fn main.  plain is a second buffer, the   *)
(* variant with plain byte storage that never clears a slot; it receives   *)
(* the same calls when tracking is set, and plain_last is its last call.   *)
(***************************************************************************)
EXTENDS Integers, Sequences, FiniteSets, TLC

\* Bounds of the exploration.
MaxCap == 3      \* largest capacity handed to new
MaxLen == 2      \* longest slice handed to extend
MaxCount == 4    \* largest count handed to drain
MaxByte == 1     \* largest byte value written (u8 values 0..MaxByte)
MaxWraps == 2    \* the count of head wraps saturates here

Bytes == 0..MaxByte

RECURSIVE SeqsUpTo(_)
SeqsUpTo(n) ==
    IF n = 0 THEN {<<>>}
    ELSE LET S == SeqsUpTo(n - 1)
         IN  S \cup {Append(s, b) : s \in {t \in S : Len(t) = n - 1}, b \in Bytes}

Slices == SeqsUpTo(MaxLen)

\* Option<u8>
None == <<>>
Some(v) == <<v>>

\* Result<usize, RingBufferError>
NoSpaceLeft == "NoSpaceLeft"
Ok(n) == [tag |-> "Ok", n |-> n]
Err(e) == [tag |-> e, n |-> 0]
NoResult == [tag |-> "-", n |-> 0]

VARIABLES buffer, capacity, head, tail, size, panicked,
          last, pre, phase, pushed, popped,
          wraps, in_stream, out_stream, main_pc, trace,
          tracking, plain, plain_last

vars == <<buffer, capacity, head, tail, size, panicked,
          last, pre, phase, pushed, popped,
          wraps, in_stream, out_stream, main_pc, trace,
          tracking, plain, plain_last>>

\* The RingBuffer value held by the variables.
Self ==
    [buffer |-> buffer, capacity |-> capacity, head |-> head,
     tail |-> tail, size |-> size]

\* Mutant: the storage is reserved (Vec::with_capacity) but holds no slot.
new_with_capacity(c) ==
    [buffer |-> [i \in {} |-> None], capacity |-> c,
     head |-> 0, tail |-> 0, size |-> 0]

\* RingBuffer::new, for capacity > 0 (the assertion is modelled in Init).
new(c) ==
    [buffer |-> [i \in 0..(c - 1) |-> None], capacity |-> c,
     head |-> 0, tail |-> 0, size |-> 0]

\* Mutant: emptiness decided by the cursors instead of the count.
is_empty_by_cursors(self) == self.head = self.tail

is_empty(self) == self.size = 0

\* Mutant: one slot is kept free, the buffer reports full one element early.
is_full_early(self) == self.size + 1 >= self.capacity

\* Mutant: fullness reported one element too late.
is_full_late(self) == self.size > self.capacity

is_full(self) == self.size = self.capacity

len(self) == self.size

\* Mutant: push without the fullness check, overwriting the oldest element.
push_overwrite(self, value) ==
    [self |-> [self EXCEPT !.buffer[self.tail] = Some(value),
                           !.tail = (self.tail + 1) % self.capacity,
                           !.size = IF self.size < self.capacity
                                    THEN self.size + 1 ELSE self.size],
     ret |-> Ok(1)]

\* Mutant: the tail is advanced without the modulo.
push_no_wrap(self, value) ==
    IF is_full(self)
    THEN [self |-> self, ret |-> Err(NoSpaceLeft)]
    ELSE [self |-> [self EXCEPT !.buffer[self.tail] = Some(value),
                                !.tail = self.tail + 1,
                                !.size = self.size + 1],
          ret |-> Ok(1)]

push(self, value) ==
    IF is_full(self)
    THEN [self |-> self, ret |-> Err(NoSpaceLeft)]
    ELSE [self |-> [self EXCEPT !.buffer[self.tail] = Some(value),
                                !.tail = (self.tail + 1) % self.capacity,
                                !.size = self.size + 1],
          ret |-> Ok(1)]

\* Mutant: pop takes the newest element (the slot before tail).
pop_newest(self) ==
    IF is_empty(self)
    THEN [self |-> self, ret |-> None]
    ELSE LET t == (self.tail + self.capacity - 1) % self.capacity
         IN  [self |-> [self EXCEPT !.buffer[t] = None,
                                    !.tail = t,
                                    !.size = self.size - 1],
              ret |-> self.buffer[t]]

\* Mutant: pop without the emptiness check.
pop_unchecked(self) ==
    [self |-> [self EXCEPT !.buffer[self.head] = None,
                           !.head = (self.head + 1) % self.capacity,
                           !.size = IF self.size > 0
                                    THEN self.size - 1 ELSE self.size],
     ret |-> self.buffer[self.head]]

\* Mutant: pop copies the value out and leaves the slot occupied.
pop_no_take(self) ==
    IF is_empty(self)
    THEN [self |-> self, ret |-> None]
    ELSE [self |-> [self EXCEPT !.head = (self.head + 1) % self.capacity,
                                !.size = self.size - 1],
          ret |-> self.buffer[self.head]]

\* Mutant: the head is advanced without the modulo.
pop_no_wrap(self) ==
    IF is_empty(self)
    THEN [self |-> self, ret |-> None]
    ELSE [self |-> [self EXCEPT !.buffer[self.head] = None,
                                !.head = self.head + 1,
                                !.size = self.size - 1],
          ret |-> self.buffer[self.head]]

\* Mutant: the head is not advanced.
pop_head_stays(self) ==
    IF is_empty(self)
    THEN [self |-> self, ret |-> None]
    ELSE [self |-> [self EXCEPT !.buffer[self.head] = None,
                                !.size = self.size - 1],
          ret |-> self.buffer[self.head]]

pop(self) ==
    IF is_empty(self)
    THEN [self |-> self, ret |-> None]
    ELSE [self |-> [self EXCEPT !.buffer[self.head] = None,
                                !.head = (self.head + 1) % self.capacity,
                                !.size = self.size - 1],
          ret |-> self.buffer[self.head]]

\* The for loop of extend: data[i..] is still to be written, count bytes
\* have been written so far.
RECURSIVE extend_loop(_, _, _, _)
extend_loop(self, data, i, count) ==
    IF i > Len(data)
    THEN [self |-> self, ret |-> Ok(count)]
    ELSE IF is_full(self)
    THEN [self |-> self,
          ret |-> IF count > 0 THEN Ok(count) ELSE Err(NoSpaceLeft)]
    ELSE extend_loop([self EXCEPT !.buffer[self.tail] = Some(data[i]),
                                  !.tail = (self.tail + 1) % self.capacity,
                                  !.size = self.size + 1],
                     data, i + 1, count + 1)

\* Mutant: a slice that does not fit is refused as a whole.
extend_all_or_nothing(self, data) ==
    IF data = <<>>
    THEN [self |-> self, ret |-> Ok(0)]
    ELSE IF Len(data) > self.capacity - self.size
    THEN [self |-> self, ret |-> Err(NoSpaceLeft)]
    ELSE extend_loop(self, data, 1, 0)

\* Mutant: the loop stops on a full buffer and the count is returned as is.
extend_break(self, data) ==
    IF data = <<>>
    THEN [self |-> self, ret |-> Ok(0)]
    ELSE LET r == extend_loop(self, data, 1, 0)
         IN  IF r.ret = Err(NoSpaceLeft) THEN [r EXCEPT !.ret = Ok(0)] ELSE r

\* Mutant: fullness is tested before the slice is looked at.
extend_full_first(self, data) ==
    IF is_full(self)
    THEN [self |-> self, ret |-> Err(NoSpaceLeft)]
    ELSE extend_loop(self, data, 1, 0)

\* Mutant: a successful extend returns data.len() instead of the count.
extend_count_bytes(self, data) ==
    IF data = <<>>
    THEN [self |-> self, ret |-> Ok(0)]
    ELSE LET r == extend_loop(self, data, 1, 0)
         IN  IF r.ret = Err(NoSpaceLeft) THEN r
             ELSE [r EXCEPT !.ret = Ok(Len(data))]

extend(self, data) ==
    IF data = <<>>
    THEN [self |-> self, ret |-> Ok(0)]
    ELSE extend_loop(self, data, 1, 0)

\* The for loop of drain: remaining iterations are left, result holds the
\* bytes collected so far.
RECURSIVE drain_loop(_, _, _)
drain_loop(self, remaining, result) ==
    IF remaining = 0
    THEN [self |-> self, ret |-> result]
    ELSE LET r == pop(self)
         IN  IF r.ret = None
             THEN [self |-> r.self, ret |-> result]
             ELSE drain_loop(r.self, remaining - 1, Append(result, r.ret[1]))

\* Mutant: the bytes are collected newest first.
drain_reversed(self, count) ==
    LET r == drain_loop(self, count, <<>>)
    IN  [r EXCEPT !.ret = [k \in 1..Len(r.ret) |-> r.ret[Len(r.ret) + 1 - k]]]

\* Mutant: the loop runs over 0..=count.
drain_inclusive(self, count) == drain_loop(self, count + 1, <<>>)

drain(self, count) == drain_loop(self, count, <<>>)

----------------------------------------------------------------------------
\* The variant with plain byte storage: a slot holds a byte, a read leaves the
\* slot as it is, and head, tail and size are kept as in RingBuffer.

plain_new(c) ==
    [buffer |-> [i \in 0..(c - 1) |-> 0], capacity |-> c,
     head |-> 0, tail |-> 0, size |-> 0]

plain_is_empty(self) == self.size = 0

plain_is_full(self) == self.size = self.capacity

plain_len(self) == self.size

plain_push(self, value) ==
    IF plain_is_full(self)
    THEN [self |-> self, ret |-> Err(NoSpaceLeft)]
    ELSE [self |-> [self EXCEPT !.buffer[self.tail] = value,
                                !.tail = (self.tail + 1) % self.capacity,
                                !.size = self.size + 1],
          ret |-> Ok(1)]

plain_pop(self) ==
    IF plain_is_empty(self)
    THEN [self |-> self, ret |-> None]
    ELSE [self |-> [self EXCEPT !.head = (self.head + 1) % self.capacity,
                                !.size = self.size - 1],
          ret |-> Some(self.buffer[self.head])]

RECURSIVE plain_extend_loop(_, _, _, _)
plain_extend_loop(self, data, i, count) ==
    IF i > Len(data)
    THEN [self |-> self, ret |-> Ok(count)]
    ELSE IF plain_is_full(self)
    THEN [self |-> self,
          ret |-> IF count > 0 THEN Ok(count) ELSE Err(NoSpaceLeft)]
    ELSE plain_extend_loop(
             [self EXCEPT !.buffer[self.tail] = data[i],
                          !.tail = (self.tail + 1) % self.capacity,
                          !.size = self.size + 1],
             data, i + 1, count + 1)

plain_extend(self, data) ==
    IF data = <<>>
    THEN [self |-> self, ret |-> Ok(0)]
    ELSE plain_extend_loop(self, data, 1, 0)

RECURSIVE plain_drain_loop(_, _, _)
plain_drain_loop(self, remaining, result) ==
    IF remaining = 0
    THEN [self |-> self, ret |-> result]
    ELSE LET r == plain_pop(self)
         IN  IF r.ret = None
             THEN [self |-> r.self, ret |-> result]
             ELSE plain_drain_loop(r.self, remaining - 1,
                                   Append(result, r.ret[1]))

plain_drain(self, count) == plain_drain_loop(self, count, <<>>)

----------------------------------------------------------------------------
\* History records.

Snapshot(self) ==
    [buffer |-> self.buffer, capacity |-> self.capacity, head |-> self.head,
     tail |-> self.tail, size |-> self.size]

Call(op, value, data, count, res, opt, vec) ==
    [op |-> op, value |-> value, data |-> data, count |-> count,
     res |-> res, opt |-> opt, vec |-> vec]

NoCall == Call("new", 0, <<>>, 0, NoResult, None, <<>>)

\* The method's resulting RingBuffer becomes the state; the state before the
\* call is kept in pre.
Commit(r) ==
    /\ buffer' = r.self.buffer
    /\ capacity' = r.self.capacity
    /\ head' = r.self.head
    /\ tail' = r.self.tail
    /\ size' = r.self.size
    /\ pre' = Snapshot(Self)
    /\ UNCHANGED panicked

EndRun ==
    /\ phase' = "idle"
    /\ pushed' = <<>>
    /\ popped' = <<>>

\* The bytes a call took in, as its return value tells the caller.
Accepted(c) ==
    IF c.op = "push" /\ c.res = Ok(1) THEN <<c.value>>
    ELSE IF c.op = "extend" /\ c.res.tag = "Ok" THEN SubSeq(c.data, 1, c.res.n)
    ELSE <<>>

\* The bytes a call handed out.
Returned(c) ==
    IF c.op = "pop" /\ c.opt # None THEN <<c.opt[1]>>
    ELSE IF c.op = "drain" THEN c.vec
    ELSE <<>>

IsPrefix(s, t) == Len(s) <= Len(t) /\ SubSeq(t, 1, Len(s)) = s

\* The call c extends the stream of accepted bytes and the stream of returned
\* bytes.  When the returned stream is a prefix of the accepted stream at the
\* start of the call, that prefix is dropped from both streams first, so that
\* they keep only what is still to be matched.
Observe(c) ==
    LET matched == IsPrefix(out_stream, in_stream)
        in0 == IF matched
               THEN SubSeq(in_stream, Len(out_stream) + 1, Len(in_stream))
               ELSE in_stream
        out0 == IF matched THEN <<>> ELSE out_stream
    IN  /\ in_stream' = in0 \o Accepted(c)
        /\ out_stream' = out0 \o Returned(c)

\* The variant receives the call too, when it is tracked.
Track(op, value, data, count) ==
    /\ tracking' = tracking
    /\ IF tracking
       THEN CASE op = "push" ->
                   LET q == plain_push(plain, value)
                   IN  /\ plain' = q.self
                       /\ plain_last' =
                              Call("push", value, <<>>, 0, q.ret, None, <<>>)
              [] op = "pop" ->
                   LET q == plain_pop(plain)
                   IN  /\ plain' = q.self
                       /\ plain_last' =
                              Call("pop", 0, <<>>, 0, NoResult, q.ret, <<>>)
              [] op = "extend" ->
                   LET q == plain_extend(plain, data)
                   IN  /\ plain' = q.self
                       /\ plain_last' =
                              Call("extend", 0, data, 0, q.ret, None, <<>>)
              [] op = "drain" ->
                   LET q == plain_drain(plain, count)
                   IN  /\ plain' = q.self
                       /\ plain_last' =
                              Call("drain", 0, <<>>, count, NoResult, None, q.ret)
       ELSE UNCHANGED <<plain, plain_last>>

\* fn main: the capacity of its buffer and its calls, in order.
MainCapacity == 3

MainCall(op, value, data, count) ==
    [op |-> op, value |-> value, data |-> data, count |-> count]

MainCalls ==
    << MainCall("push", 10, <<>>, 0),
       MainCall("push", 20, <<>>, 0),
       MainCall("push", 30, <<>>, 0),
       MainCall("push", 40, <<>>, 0),
       MainCall("pop", 0, <<>>, 0),
       MainCall("pop", 0, <<>>, 0),
       MainCall("extend", 0, <<4, 5>>, 0),
       MainCall("drain", 0, <<>>, 3) >>

----------------------------------------------------------------------------
\* The state after new(c).  pc is 0 when the caller is fn main and -1 when
\* the caller is any other program.
InitAs(c, pc) ==
    /\ panicked = ~(c > 0)
    /\ capacity = c
    /\ buffer = new(c).buffer
    /\ head = new(c).head
    /\ tail = new(c).tail
    /\ size = new(c).size
    /\ last = NoCall
    /\ pre = Snapshot(new(c))
    /\ phase = "idle"
    /\ pushed = <<>>
    /\ popped = <<>>
    /\ wraps = 0
    /\ in_stream = <<>>
    /\ out_stream = <<>>
    /\ main_pc = pc
    /\ trace = <<>>

\* The variant is constructed with the same capacity; t tells whether it
\* receives the calls.
InitPlainAs(t) ==
    /\ tracking = t
    /\ plain = plain_new(capacity)
    /\ plain_last = NoCall

Init ==
    /\ \/ \E c \in 0..MaxCap : InitAs(c, -1)
       \/ InitAs(MainCapacity, 0)
    /\ InitPlainAs(FALSE)

InitPlain ==
    /\ \/ \E c \in 0..MaxCap : InitAs(c, -1)
       \/ InitAs(MainCapacity, 0)
    /\ InitPlainAs(TRUE)

Push ==
    /\ ~panicked
    /\ main_pc = -1
    /\ \E v \in Bytes :
        LET r == push(Self, v) IN
        /\ Commit(r)
        /\ last' = Call("push", v, <<>>, 0, r.ret, None, <<>>)
        /\ Observe(last')
        /\ Track("push", v, <<>>, 0)
        /\ UNCHANGED <<wraps, main_pc, trace>>
        /\ IF r.ret = Ok(1) /\ is_empty(Self)
           THEN phase' = "pushing" /\ pushed' = <<v>> /\ popped' = <<>>
           ELSE IF r.ret = Ok(1) /\ phase = "pushing"
           THEN phase' = "pushing" /\ pushed' = Append(pushed, v)
                /\ popped' = popped
           ELSE EndRun

Pop ==
    /\ ~panicked
    /\ main_pc = -1
    /\ LET r == pop(Self) IN
        /\ Commit(r)
        /\ last' = Call("pop", 0, <<>>, 0, NoResult, r.ret, <<>>)
        /\ Observe(last')
        /\ Track("pop", 0, <<>>, 0)
        /\ wraps' = IF r.self.head < head /\ wraps < MaxWraps
                    THEN wraps + 1 ELSE wraps
        /\ UNCHANGED <<main_pc, trace>>
        /\ IF phase \in {"pushing", "popping"} /\ Len(popped) < Len(pushed)
           THEN phase' = "popping" /\ popped' = Append(popped, r.ret)
                /\ pushed' = pushed
           ELSE EndRun

Extend ==
    /\ ~panicked
    /\ main_pc = -1
    /\ \E data \in Slices :
        LET r == extend(Self, data) IN
        /\ Commit(r)
        /\ last' = Call("extend", 0, data, 0, r.ret, None, <<>>)
        /\ Observe(last')
        /\ Track("extend", 0, data, 0)
        /\ EndRun
        /\ wraps' = 0
        /\ UNCHANGED <<main_pc, trace>>

Drain ==
    /\ ~panicked
    /\ main_pc = -1
    /\ \E count \in 0..MaxCount :
        LET r == drain(Self, count) IN
        /\ Commit(r)
        /\ last' = Call("drain", 0, <<>>, count, NoResult, None, r.ret)
        /\ Observe(last')
        /\ Track("drain", 0, <<>>, count)
        /\ EndRun
        /\ wraps' = 0
        /\ UNCHANGED <<main_pc, trace>>

\* fn main makes its next call on its buffer.
MainStep ==
    /\ ~panicked
    /\ main_pc >= 0
    /\ main_pc < Len(MainCalls)
    /\ LET c == MainCalls[main_pc + 1]
           r == CASE c.op = "push" -> push(Self, c.value)
                  [] c.op = "pop" -> pop(Self)
                  [] c.op = "extend" -> extend(Self, c.data)
                  [] c.op = "drain" -> drain(Self, c.count)
       IN  /\ Commit(r)
           /\ last' = CASE c.op = "push" ->
                              Call("push", c.value, <<>>, 0, r.ret, None, <<>>)
                         [] c.op = "pop" ->
                              Call("pop", 0, <<>>, 0, NoResult, r.ret, <<>>)
                         [] c.op = "extend" ->
                              Call("extend", 0, c.data, 0, r.ret, None, <<>>)
                         [] c.op = "drain" ->
                              Call("drain", 0, <<>>, c.count, NoResult, None, r.ret)
           /\ Observe(last')
           /\ Track(c.op, c.value, c.data, c.count)
           /\ EndRun
           /\ wraps' = 0
           /\ main_pc' = main_pc + 1
           /\ trace' = Append(trace, last')

Next == Push \/ Pop \/ Extend \/ Drain \/ MainStep

Spec == Init /\ [][Next]_vars

\* The same program with the plain-storage variant run beside it.
SpecPlain == InitPlain /\ [][Next]_vars

----------------------------------------------------------------------------
\* Helpers of the properties.

Min(a, b) == IF a <= b THEN a ELSE b

\* The queued slots of a buffer value, oldest first, as Option values.
Contents(self) ==
    [k \in 1..self.size |-> self.buffer[(self.head + k - 1) % self.capacity]]

\* The bytes of a slice as present values.
Present(data) == [k \in 1..Len(data) |-> Some(data[k])]

\* Slot i lies among the size slots starting at head, wrapping.
InWindow(i) == \E k \in 0..(size - 1) : (head + k) % capacity = i

Unchanged == Snapshot(Self) = pre

----------------------------------------------------------------------------
\* C1. Capacity invariant: for a buffer built by new(capacity) with
\* capacity >= 1, 0 <= len() <= capacity holds after every push, pop, extend
\* and drain call.
CapacityInvariant ==
    ~panicked => capacity >= 1 /\ 0 <= len(Self) /\ len(Self) <= capacity

\* A push was refused on a full buffer, and an extend longer than the free
\* space has filled it: the upper limit was reached and tried.
CapacityInvariantWitness ==
    /\ ~panicked
    /\ last.op = "extend"
    /\ Len(last.data) > capacity - pre.size
    /\ pre.size > 0
    /\ len(Self) = capacity

\* C2. FIFO ordering: starting from an empty buffer at any head/tail position,
\* k successful pushes of v1..vk followed by k pops return Some(v1), ...,
\* Some(vk) in that order.
FifoOrdering ==
    phase = "popping" =>
        /\ Len(popped) <= Len(pushed)
        /\ \A k \in 1..Len(popped) : popped[k] = Some(pushed[k])

\* A run of capacity pushes and as many pops is complete, it started at a
\* head position other than 0 (so it wrapped) and its values differ.
FifoOrderingWitness ==
    /\ phase = "popping"
    /\ Len(popped) = Len(pushed)
    /\ Len(pushed) = capacity
    /\ capacity >= 3
    /\ head # 0
    /\ pushed[1] # pushed[2]

\* C3. Overflow rejection: push on a full buffer returns Err(NoSpaceLeft) and
\* leaves storage, head, tail and size as they were.
OverflowRejection ==
    (last.op = "push" /\ pre.size = pre.capacity) =>
        /\ last.res = Err(NoSpaceLeft)
        /\ Unchanged
        /\ len(Self) = pre.size

OverflowRejectionWitness ==
    /\ last.op = "push"
    /\ pre.size = pre.capacity
    /\ capacity >= 2
    /\ pre.head # 0

\* C4. Partial extend: on a non-full buffer, extend of a non-empty slice
\* returns Ok(n) with n = min(len(data), free) >= 1, adds n to size and
\* appends the first n bytes of data, in order, behind the queued elements.
PartialExtend ==
    (last.op = "extend" /\ pre.size < pre.capacity /\ last.data # <<>>) =>
        LET free == pre.capacity - pre.size
            n == Min(Len(last.data), free)
        IN  /\ n >= 1
            /\ last.res = Ok(n)
            /\ size = pre.size + n
            /\ head = pre.head
            /\ Contents(Self) = Contents(pre) \o Present(SubSeq(last.data, 1, n))

\* An extend was cut short: the slice was longer than the free space of a
\* buffer that already held something.
PartialExtendWitness ==
    /\ last.op = "extend"
    /\ pre.size > 0
    /\ pre.size < pre.capacity
    /\ Len(last.data) > pre.capacity - pre.size
    /\ last.res = Ok(pre.capacity - pre.size)

\* C5. Extend rejection: on a full buffer, extend of a non-empty slice
\* returns Err(NoSpaceLeft) and changes nothing; and extend returns
\* Err(NoSpaceLeft) in that situation only.
ExtendRejection ==
    last.op = "extend" =>
        /\ (pre.size = pre.capacity /\ last.data # <<>>) =>
               (last.res = Err(NoSpaceLeft) /\ Unchanged)
        /\ last.res = Err(NoSpaceLeft) =>
               (pre.size = pre.capacity /\ last.data # <<>>)

ExtendRejectionWitness ==
    /\ last.op = "extend"
    /\ pre.size = pre.capacity
    /\ last.data # <<>>
    /\ last.res = Err(NoSpaceLeft)
    /\ capacity >= 3

\* C6. Empty-input extend: extend of the empty slice returns Ok(0), also on a
\* full buffer, and leaves storage, head, tail and size as they were.
EmptyExtend ==
    (last.op = "extend" /\ last.data = <<>>) =>
        (last.res = Ok(0) /\ Unchanged)

EmptyExtendWitness ==
    /\ last.op = "extend"
    /\ last.data = <<>>
    /\ pre.size = pre.capacity
    /\ is_full(Self)

\* C7. Underflow on pop: pop on an empty buffer returns None and leaves
\* storage, head, tail and size as they were.
PopUnderflow ==
    (last.op = "pop" /\ pre.size = 0) =>
        /\ last.opt = None
        /\ Unchanged
        /\ len(Self) = pre.size

PopUnderflowWitness ==
    /\ last.op = "pop"
    /\ pre.size = 0
    /\ pre.head # 0

\* C8. Drain result: drain(count) returns the min(count, size) oldest queued
\* elements in FIFO order and removes exactly those; on an empty buffer or
\* with count 0 it returns the empty sequence and changes nothing.
DrainResult ==
    last.op = "drain" =>
        LET n == Min(last.count, pre.size)
        IN  /\ Len(last.vec) = n
            /\ Present(last.vec) = SubSeq(Contents(pre), 1, n)
            /\ size = pre.size - n
            /\ Contents(Self) = SubSeq(Contents(pre), n + 1, pre.size)
            /\ n = 0 => (last.vec = <<>> /\ Unchanged)

\* A drain asked for more than was queued, of a queue that wrapped around
\* the end of the storage.
DrainResultWitness ==
    /\ last.op = "drain"
    /\ last.count > pre.size
    /\ pre.size >= 2
    /\ pre.head + pre.size > pre.capacity
    /\ Len(last.vec) = pre.size

\* C9. Empty/full duality: is_empty() iff len() = 0, is_full() iff
\* len() = capacity, and no buffer is both empty and full.
EmptyFullDuality ==
    ~panicked =>
        /\ is_empty(Self) <=> (len(Self) = 0)
        /\ is_full(Self) <=> (len(Self) = capacity)
        /\ ~(is_empty(Self) /\ is_full(Self))

\* A full buffer whose cursors coincide.
EmptyFullDualityWitness ==
    /\ ~panicked
    /\ head = tail
    /\ is_full(Self)
    /\ ~is_empty(Self)
    /\ last.op = "push"

\* C10. Slot occupancy: the size slots starting at head (wrapping) hold a
\* present value, every other slot is cleared, so exactly size slots are
\* occupied.
SlotOccupancy ==
    ~panicked =>
        /\ \A i \in 0..(capacity - 1) : InWindow(i) <=> buffer[i] # None
        /\ Cardinality({i \in 0..(capacity - 1) : buffer[i] # None}) = size

\* After a pop the occupied slots wrap around the end of the storage.
SlotOccupancyWitness ==
    /\ ~panicked
    /\ last.op = "pop"
    /\ last.opt # None
    /\ size >= 2
    /\ size < capacity
    /\ head + size > capacity


\* The effect of calling push on each byte of data in order, stopping at the
\* first push that returns NoSpaceLeft; count is the number that succeeded.
RECURSIVE PushEach(_, _, _, _)
PushEach(self, data, i, count) ==
    IF i > Len(data)
    THEN [self |-> self, count |-> count]
    ELSE LET r == push(self, data[i])
         IN  IF r.ret = Err(NoSpaceLeft)
             THEN [self |-> r.self, count |-> count]
             ELSE PushEach(r.self, data, i + 1, count + 1)

\* C13. Construction: new(capacity) with capacity >= 1 yields head = tail =
\* size = 0 and a storage of capacity cleared slots, empty and not full;
\* new(0) panics and no call is ever made on it; capacity never changes.
Construction ==
    /\ panicked <=> (capacity = 0)
    /\ panicked => last.op = "new"
    /\ (last.op = "new" /\ ~panicked) =>
           /\ capacity >= 1
           /\ head = 0 /\ tail = 0 /\ size = 0
           /\ DOMAIN buffer = 0..(capacity - 1)
           /\ \A i \in 0..(capacity - 1) : buffer[i] = None
           /\ is_empty(Self)
           /\ ~is_full(Self)
    /\ capacity = pre.capacity

\* A freshly constructed buffer of more than one slot.
ConstructionWitness ==
    /\ last.op = "new"
    /\ ~panicked
    /\ capacity >= 2

\* C14. Successful push: on a non-full buffer push(v) returns Ok(1), stores v
\* in the slot at the old tail (which was cleared), advances tail modulo
\* capacity, adds 1 to size and leaves head, capacity and all other slots.
PushEffect ==
    (last.op = "push" /\ pre.size < pre.capacity) =>
        /\ last.res = Ok(1)
        /\ pre.buffer[pre.tail] = None
        /\ buffer = [pre.buffer EXCEPT ![pre.tail] = Some(last.value)]
        /\ tail = (pre.tail + 1) % pre.capacity
        /\ size = pre.size + 1
        /\ head = pre.head
        /\ capacity = pre.capacity

\* A push into the last slot of the storage, behind queued elements: the tail
\* wraps to 0.
PushEffectWitness ==
    /\ last.op = "push"
    /\ last.res = Ok(1)
    /\ pre.tail = pre.capacity - 1
    /\ tail = 0
    /\ pre.size >= 1
    /\ capacity >= 3

\* C15. Successful pop: on a non-empty buffer pop() returns the present value
\* of the slot at the old head, clears that slot, advances head modulo
\* capacity, subtracts 1 from size and leaves tail, capacity and all other
\* slots.
PopEffect ==
    (last.op = "pop" /\ pre.size > 0) =>
        /\ last.opt # None
        /\ last.opt = pre.buffer[pre.head]
        /\ buffer = [pre.buffer EXCEPT ![pre.head] = None]
        /\ head = (pre.head + 1) % pre.capacity
        /\ size = pre.size - 1
        /\ tail = pre.tail
        /\ capacity = pre.capacity

\* A pop of the last slot of the storage with elements left behind it: the
\* head wraps to 0.
PopEffectWitness ==
    /\ last.op = "pop"
    /\ last.opt # None
    /\ pre.head = pre.capacity - 1
    /\ head = 0
    /\ size >= 1
    /\ capacity >= 3

\* C16. extend refines repeated push: the buffer after extend(data) is the
\* buffer after calling push on each byte of data in order up to the first
\* NoSpaceLeft, and a successful extend returns the number of pushes that
\* succeeded.
ExtendRefinesPush ==
    last.op = "extend" =>
        LET p == PushEach(pre, last.data, 1, 0)
        IN  /\ Snapshot(Self) = p.self
            /\ last.res.tag = "Ok" => last.res.n = p.count

\* An extend that wrote some bytes, wrapped the tail and was cut short.
ExtendRefinesPushWitness ==
    /\ last.op = "extend"
    /\ last.res.tag = "Ok"
    /\ last.res.n >= 1
    /\ last.res.n < Len(last.data)
    /\ tail <= pre.tail
    /\ capacity >= 2

\* C17. Overflow/underflow asymmetry: NoSpaceLeft comes from push and extend
\* only, only when the buffer was full when the call began, and then nothing
\* changed; pop and drain return no error and signal underflow by None or by
\* a result shorter than count.
ErrorAsymmetry ==
    /\ last.res = Err(NoSpaceLeft) =>
           /\ last.op \in {"push", "extend"}
           /\ pre.size = pre.capacity
           /\ Unchanged
    /\ last.op \in {"pop", "drain"} => last.res = NoResult
    /\ (last.op = "pop" /\ last.opt = None) => pre.size = 0
    /\ (last.op = "drain" /\ Len(last.vec) < last.count) =>
           (pre.size = Len(last.vec) /\ size = 0)

\* An extend of two bytes refused by a full buffer whose head is not at 0.
ErrorAsymmetryWitness ==
    /\ last.op = "extend"
    /\ last.res = Err(NoSpaceLeft)
    /\ Len(last.data) = 2
    /\ pre.head # 0

\* C19. Cursor relation: tail = (head + size) mod capacity; so head = tail
\* exactly when the buffer is empty or full.
CursorRelation ==
    ~panicked =>
        /\ tail = (head + size) % capacity
        /\ (head = tail) <=> (size = 0 \/ size = capacity)

\* An emptied buffer whose cursors meet away from slot 0.
CursorRelationWitness ==
    /\ ~panicked
    /\ last.op = "drain"
    /\ last.vec # <<>>
    /\ head = tail
    /\ head # 0
    /\ size = 0


\* C11. Index range under wraparound: head and tail stay in 0..capacity-1 and
\* the storage keeps exactly capacity slots, however often the cursors have
\* wrapped; so no call indexes outside the storage.
IndexRange ==
    ~panicked =>
        /\ 0 <= head /\ head < capacity
        /\ 0 <= tail /\ tail < capacity
        /\ DOMAIN buffer = 0..(capacity - 1)

\* Push and pop calls have taken the head past the end of a storage of
\* several slots at least twice, and elements are queued across the end.
IndexRangeWitness ==
    /\ ~panicked
    /\ wraps >= 2
    /\ capacity >= 3
    /\ last.op = "push"
    /\ tail < head

\* C12. End-to-end scenario: on a fresh buffer of capacity 3 the calls of main
\* return Ok(1), Ok(1), Ok(1), Err(NoSpaceLeft), Some(10), Some(20), Ok(2) and
\* [30, 4, 5], and leave the buffer empty.
EndToEnd ==
    main_pc = Len(MainCalls) =>
        /\ Len(trace) = 8
        /\ trace[1].res = Ok(1)
        /\ trace[2].res = Ok(1)
        /\ trace[3].res = Ok(1)
        /\ trace[4].res = Err(NoSpaceLeft)
        /\ trace[5].opt = Some(10)
        /\ trace[6].opt = Some(20)
        /\ trace[7].res = Ok(2)
        /\ trace[8].vec = <<30, 4, 5>>
        /\ is_empty(Self)

\* main has made its eight calls.
EndToEndWitness ==
    /\ main_pc = 8
    /\ capacity = 3
    /\ last.op = "drain"
    /\ last.count = 3

\* C20. FIFO under arbitrary interleaving: after every call the returned
\* bytes are a prefix of the accepted bytes, len() is the difference of the
\* two lengths and the rest of the accepted bytes is the buffer content read
\* from head in order.
FifoInterleaved ==
    ~panicked =>
        /\ IsPrefix(out_stream, in_stream)
        /\ len(Self) = Len(in_stream) - Len(out_stream)
        /\ Contents(Self) =
               Present(SubSeq(in_stream, Len(out_stream) + 1, Len(in_stream)))

\* A drain took several bytes that had come in through push and extend, left
\* one queued, and the queue had wrapped around the end of the storage.
FifoInterleavedWitness ==
    /\ last.op = "drain"
    /\ Len(out_stream) >= 2
    /\ Len(in_stream) > Len(out_stream)
    /\ pre.head + pre.size > pre.capacity
    /\ out_stream[1] # out_stream[2]


\* C18. Slot clearing is not observable: the variant with plain byte storage
\* that never clears a slot returns the same value as the program for every
\* push, pop, extend and drain call, and its len, is_empty and is_full agree
\* with the program's in every state.
ClearingNotObservable ==
    tracking =>
        /\ plain_last = last
        /\ plain_len(plain) = len(Self)
        /\ plain_is_empty(plain) = is_empty(Self)
        /\ plain_is_full(plain) = is_full(Self)

\* A pop has returned a value while the variant still holds a byte other than
\* its initial 0 in a slot that the program has cleared.
ClearingNotObservableWitness ==
    /\ tracking
    /\ last.op = "pop"
    /\ last.opt # None
    /\ size >= 1
    /\ \E i \in 0..(capacity - 1) : buffer[i] = None /\ plain.buffer[i] # 0

====
